---------------------------- MODULE Spec2Model ----------------------------
(***************************************************************************)
(* Model of the synchronisation and process core of xv6-riscv-rust:        *)
(*   src/src/spinlock.rs      SpinLock, SpinLockGuard, push_off, pop_off   *)
(*   src/src/process/proc.rs  Proc                                         *)
(*                                                                         *)
(* Harts interleave at the granularity of one access to shared memory      *)
(* (lock.load, cpu_id.get, compare_and_swap, cpu_id.set, lock.store, one   *)
(* read or write of the protected data).  Hart-local work (the interrupt   *)
(* enable bit, the nesting counter) is folded into the neighbouring shared *)
(* access.  Memory is sequentially consistent.                             *)
(***************************************************************************)
EXTENDS Integers, Sequences, FiniteSets, TLC

\* ------------------------------------------------------------------ bounds
NHarts == 2
NFlows == 2
MaxCalls == 3

\* Proc methods called on the one Proc
MaxProcCalls == 5

Harts == 0 .. (NHarts - 1)
Flows == 1 .. NFlows

\* The SpinLock instances the sources construct: Proc::lock ("proc") and the
\* lock of tests::smoke ("smoke").
Locks == {"proc", "smoke"}

\* cpu_id: Cell<isize> value of a lock no hart owns
NoOwner == -1

VARIABLES
    lock,        \* lock[l]    : SpinLock.lock, the AtomicBool
    cpu_id,      \* cpu_id[l]  : SpinLock.cpu_id, the owner cell
    data,        \* data[l]    : SpinLock.data, here a counter
    cpu,         \* cpu[h]     : [intr, noff, intena], hart-local interrupt state
    fn,          \* fn[h]      : the SpinLock function hart h executes
    pc,          \* pc[h]      : position inside fn[h]
    arg,         \* arg[h]     : the lock (self) of the running call
    r,           \* r[h]       : the local r of holding()
    tmp,         \* tmp[h]     : value read through the guard, to be written back
    guard,       \* guard[h]   : hart h is inside lock() .. drop(SpinLockGuard)
    held,        \* held[h]    : locks h took (CAS won, locked=false not yet stored),
                 \*              oldest first, each with the flow that took it
    flow,        \* flow[h]    : the logical flow (kernel context) running on hart h
    panicked,    \* panicked[h]: the message of the panic that stopped hart h, or ""
    attempts,    \* attempts[h]: increments hart h has written back
    intr_before, \* intr_before[h]: interrupt-enable bit of h before its first push_off
                 \*              (on for the even harts, off for the odd ones)
    ncalls,      \* number of top-level calls and context switches made so far
    proc,        \* the Proc: [state, killed, pid, kstack, sz, pagetable, tf,
                 \*              context, name]
    plast,       \* the Proc method called last
    ppanic,      \* the message of the panic that ended a Proc method, or ""
    frames,      \* frames[t]  : the TrapFrame stored in page t of the pool
    sepc,        \* sepc[h]    : the sepc register of hart h
    pret,        \* the value the last user_ret_prepare returned
    pcall,       \* the inputs of the Proc method called last
    npcalls      \* number of Proc methods called so far

procVars == <<proc, plast, ppanic, frames, sepc, pret, pcall, npcalls>>

lockVars == <<lock, cpu_id, data, cpu, fn, pc, arg, r, tmp, guard, held, flow,
              panicked, attempts, intr_before, ncalls>>

\* -------------------------------------------------- interrupt nesting counter

\* process::push_off(old): first (outermost) push records the old enable bit
proc_push_off(c, old) ==
    [c EXCEPT !.intena = IF c.noff = 0 THEN old ELSE c.intena,
              !.noff = c.noff + 1]

\* process::pop_off(): decrement, re-enable when back at zero and intena
proc_pop_off(c) ==
    [c EXCEPT !.noff = c.noff - 1,
              !.intr = IF c.noff = 1 /\ c.intena THEN TRUE ELSE c.intr]

\* A mutant of push_off: the enable bit is read after intr_off.
push_off_late(c) ==
    proc_push_off([c EXCEPT !.intr = FALSE], FALSE)

\* spinlock.rs push_off: old = intr_get(); intr_off(); process::push_off(old)
push_off(c) ==
    proc_push_off([c EXCEPT !.intr = FALSE], c.intr)

\* spinlock.rs pop_off panics when interrupts are on; process::pop_off cannot
\* take the counter below zero
pop_off_panics(c) == c.intr \/ c.noff = 0

pop_off(c) == proc_pop_off(c)

\* process::cpu_id(): the identifier of the executing hart
this_cpu(h) == h

\* ---------------------------------------------------------------- helpers

Holds(h, l) == \E i \in DOMAIN held[h] : held[h][i].l = l

Holders(l) == {h \in Harts : Holds(h, l)}

Drop(s, l) == SelectSeq(s, LAMBDA e : e.l # l)

Panic(h, msg) ==
    /\ pc' = [pc EXCEPT ![h] = "panic"]
    /\ panicked' = [panicked EXCEPT ![h] = msg]

\* return to the caller of the top-level call: the call's locals die
Return(h) ==
    /\ fn' = [fn EXCEPT ![h] = "none"]
    /\ pc' = [pc EXCEPT ![h] = "idle"]
    /\ arg' = [arg EXCEPT ![h] = "proc"]
    /\ r' = [r EXCEPT ![h] = FALSE]
    /\ tmp' = [tmp EXCEPT ![h] = 0]
    /\ guard' = [guard EXCEPT ![h] = FALSE]

\* A mutant of compare_and_swap: the flag is set without comparing.
swap_unconditional(cell, current, new) ==
    [prev |-> current, val |-> new]

\* A mutant of compare_and_swap: the swap fails even on a clear flag.
compare_and_swap_never(cell, current, new) ==
    [prev |-> TRUE, val |-> cell]

\* A mutant of compare_and_swap: a set flag is reported as clear.
compare_and_swap_blind(cell, current, new) ==
    [prev |-> current, val |-> IF cell = current THEN new ELSE cell]

\* AtomicBool::compare_and_swap(current, new): the previous value, and the
\* value left in the cell
compare_and_swap(cell, current, new) ==
    [prev |-> cell, val |-> IF cell = current THEN new ELSE cell]


\* ------------------------------------------------------------------- Init

InitLock ==
    /\ lock = [l \in Locks |-> FALSE]
    /\ cpu_id = [l \in Locks |-> NoOwner]
    /\ data = [l \in Locks |-> 0]
    /\ intr_before = [h \in Harts |-> h % 2 = 0]
    /\ cpu = [h \in Harts |-> [intr |-> intr_before[h], noff |-> 0, intena |-> FALSE]]
    /\ fn = [h \in Harts |-> "none"]
    /\ pc = [h \in Harts |-> "idle"]
    /\ arg = [h \in Harts |-> "proc"]
    /\ r = [h \in Harts |-> FALSE]
    /\ tmp = [h \in Harts |-> 0]
    /\ guard = [h \in Harts |-> FALSE]
    /\ held = [h \in Harts |-> <<>>]
    /\ flow = [h \in Harts |-> 1]
    /\ panicked = [h \in Harts |-> ""]
    /\ attempts = [h \in Harts |-> 0]
    /\ ncalls = 0

\* ---------------------------------------------------------------- holding

\* Mutants of the owner comparison: inverted; dropped; tied to the flow that
\* took the lock instead of the hart.
holding_owner_inverted(h, l, v) == v # this_cpu(h)

holding_owner_dropped(h, l, v) == TRUE

holding_owner_flow(h, l, v) ==
    /\ v = this_cpu(h)
    /\ \A i \in DOMAIN held[h] : held[h][i].l = l => held[h][i].f = flow[h]

\* holding(), second conjunct: self.cpu_id.get() == cpu_id() as isize, v being
\* the value the get() returned
holding_owner(h, l, v) == v = this_cpu(h)

\* self.cpu_id.get() in holding(): the cell is a plain Cell<isize> that the
\* hart inside acquire_lock or release_lock writes without synchronising with
\* this read, so the read races with a write that is about to happen and may
\* return the value before or after it.  (A hart never reads a value older
\* than its own last write of the cell.)
cpu_id_get(l) ==
    {cpu_id[l]}
    \cup {this_cpu(o) : o \in {x \in Harts : fn[x] = "acquire_lock" /\ pc[x] = "set"
                                             /\ arg[x] = l}}
    \cup {NoOwner : o \in {x \in Harts : fn[x] = "release_lock" /\ pc[x] = "clr"
                                         /\ arg[x] = l}}

\* A mutant of holding(): interrupts are left as they are during the reads.
holding_enter_nopush(h, l, f, c) ==
    /\ cpu' = [cpu EXCEPT ![h] = c]
    /\ fn' = [fn EXCEPT ![h] = f]
    /\ pc' = [pc EXCEPT ![h] = "ld"]
    /\ arg' = [arg EXCEPT ![h] = l]

\* holding() entry: push_off(), then the two reads follow at "ld" and "id"
holding_enter(h, l, f, c) ==
    /\ cpu' = [cpu EXCEPT ![h] = push_off(c)]
    /\ fn' = [fn EXCEPT ![h] = f]
    /\ pc' = [pc EXCEPT ![h] = "ld"]
    /\ arg' = [arg EXCEPT ![h] = l]

\* holding() exit: r is set, pop_off(), return r; the caller branches on it:
\*   acquire_lock: if self.holding() { panic!("acquire") }, else on to the swap
\*   release_lock: if !self.holding() { panic!("release") }, else on to the clear
\*   a direct call keeps r at "ret"
holding_leave(h, res) ==
    IF pop_off_panics(cpu[h])
    THEN /\ Panic(h, "pop_off")
         /\ UNCHANGED <<cpu, r>>
    ELSE /\ cpu' = [cpu EXCEPT ![h] = pop_off(cpu[h])]
         /\ r' = [r EXCEPT ![h] = res]
         /\ IF fn[h] = "acquire_lock" /\ res THEN Panic(h, "acquire")
            ELSE IF fn[h] = "release_lock" /\ ~res THEN Panic(h, "release")
            ELSE /\ pc' = [pc EXCEPT ![h] = CASE fn[h] = "acquire_lock" -> "cas"
                                               [] fn[h] = "release_lock" -> "clr"
                                               [] OTHER -> "ret"]
                 /\ UNCHANGED panicked

\* self.lock.load(Relaxed) && ... : a false flag short-circuits the owner read
holding_load(h) ==
    /\ pc[h] = "ld"
    /\ IF lock[arg[h]]
       THEN /\ pc' = [pc EXCEPT ![h] = "id"]
            /\ UNCHANGED <<cpu, r, panicked>>
       ELSE holding_leave(h, FALSE)
    /\ UNCHANGED <<lock, cpu_id, data, fn, arg, tmp, guard, held, flow,
                   attempts, intr_before, ncalls>>
    /\ UNCHANGED procVars

holding_id(h) ==
    /\ pc[h] = "id"
    /\ \E v \in cpu_id_get(arg[h]) : holding_leave(h, holding_owner(h, arg[h], v))
    /\ UNCHANGED <<lock, cpu_id, data, fn, arg, tmp, guard, held, flow,
                   attempts, intr_before, ncalls>>
    /\ UNCHANGED procVars

\* a direct call of holding() returns r to its caller
holding_ret(h) ==
    /\ fn[h] = "holding" /\ pc[h] = "ret"
    /\ Return(h)
    /\ UNCHANGED <<lock, cpu_id, data, cpu, held, flow,
                   panicked, attempts, intr_before, ncalls>>
    /\ UNCHANGED procVars

\* ----------------------------------------------------------- acquire_lock

\* A mutant of acquire_lock(): its own push_off() is missing.
acquire_lock_nopush(h, l) ==
    /\ cpu' = [cpu EXCEPT ![h] = push_off(cpu[h])]
    /\ fn' = [fn EXCEPT ![h] = "acquire_lock"]
    /\ pc' = [pc EXCEPT ![h] = "ld"]
    /\ arg' = [arg EXCEPT ![h] = l]

\* acquire_lock() entry: push_off(); if self.holding() ...
acquire_lock(h, l) ==
    holding_enter(h, l, "acquire_lock", push_off(cpu[h]))

\* A mutant of acquire_lock(): the owner is written in the loop, before the
\* swap is known to have succeeded.
acquire_cas_eager(h) ==
    /\ fn[h] = "acquire_lock" /\ pc[h] = "cas"
    /\ LET cas == compare_and_swap(lock[arg[h]], FALSE, TRUE) IN
       /\ lock' = [lock EXCEPT ![arg[h]] = cas.val]
       /\ cpu_id' = [cpu_id EXCEPT ![arg[h]] = this_cpu(h)]
       /\ IF cas.prev
          THEN UNCHANGED <<pc, held>>
          ELSE /\ pc' = [pc EXCEPT ![h] = "set"]
               /\ held' = [held EXCEPT ![h] = Append(@, [l |-> arg[h], f |-> flow[h]])]
    /\ UNCHANGED <<data, cpu, fn, arg, r, tmp, guard, flow, panicked,
                   attempts, intr_before, ncalls>>
    /\ UNCHANGED procVars

\* while self.lock.compare_and_swap(false, true, Acquire) {}
\* one iteration: a failed swap leaves the hart at "cas"
acquire_cas(h) ==
    /\ fn[h] = "acquire_lock" /\ pc[h] = "cas"
    /\ LET cas == compare_and_swap(lock[arg[h]], FALSE, TRUE) IN
       /\ lock' = [lock EXCEPT ![arg[h]] = cas.val]
       /\ IF cas.prev
          THEN UNCHANGED <<pc, held>>
          ELSE /\ pc' = [pc EXCEPT ![h] = "set"]
               /\ held' = [held EXCEPT ![h] = Append(@, [l |-> arg[h], f |-> flow[h]])]
    /\ UNCHANGED <<cpu_id, data, cpu, fn, arg, r, tmp, guard, flow, panicked,
                   attempts, intr_before, ncalls>>
    /\ UNCHANGED procVars

\* fence; self.cpu_id.set(cpu_id()); return (into lock()'s guard, if any)
acquire_set(h) ==
    /\ fn[h] = "acquire_lock" /\ pc[h] = "set"
    /\ cpu_id' = [cpu_id EXCEPT ![arg[h]] = this_cpu(h)]
    /\ IF guard[h]
       THEN /\ fn' = [fn EXCEPT ![h] = "deref_mut"]
            /\ pc' = [pc EXCEPT ![h] = "read"]
            /\ UNCHANGED <<arg, r, tmp, guard>>
       ELSE Return(h)
    /\ UNCHANGED <<lock, data, cpu, held, flow, panicked,
                   attempts, intr_before, ncalls>>
    /\ UNCHANGED procVars

\* ----------------------------------------------------------- release_lock

\* release_lock() entry: if !self.holding() ...
release_lock(h, l) ==
    holding_enter(h, l, "release_lock", cpu[h])

\* A mutant of release_lock(): the owner is not cleared.
release_clear_skip(h) ==
    /\ fn[h] = "release_lock" /\ pc[h] = "clr"
    /\ pc' = [pc EXCEPT ![h] = "sto"]
    /\ UNCHANGED <<lock, cpu_id, data, cpu, fn, arg, r, tmp, guard, held, flow,
                   panicked, attempts, intr_before, ncalls>>
    /\ UNCHANGED procVars

\* self.cpu_id.set(-1); fence
release_clear(h) ==
    /\ fn[h] = "release_lock" /\ pc[h] = "clr"
    /\ cpu_id' = [cpu_id EXCEPT ![arg[h]] = NoOwner]
    /\ pc' = [pc EXCEPT ![h] = "sto"]
    /\ UNCHANGED <<lock, data, cpu, fn, arg, r, tmp, guard, held, flow, panicked,
                   attempts, intr_before, ncalls>>
    /\ UNCHANGED procVars

\* A mutant of release_lock(): the flag is not stored back.
release_store_nostore(h) ==
    /\ fn[h] = "release_lock" /\ pc[h] = "sto"
    /\ held' = [held EXCEPT ![h] = Drop(@, arg[h])]
    /\ cpu' = [cpu EXCEPT ![h] = pop_off(cpu[h])]
    /\ Return(h)
    /\ UNCHANGED <<lock, cpu_id, data, flow, panicked, attempts, intr_before, ncalls>>
    /\ UNCHANGED procVars

\* self.lock.store(false, Release); pop_off(); return
release_store(h) ==
    /\ fn[h] = "release_lock" /\ pc[h] = "sto"
    /\ lock' = [lock EXCEPT ![arg[h]] = FALSE]
    /\ held' = [held EXCEPT ![h] = Drop(@, arg[h])]
    /\ IF pop_off_panics(cpu[h])
       THEN /\ Panic(h, "pop_off")
            /\ UNCHANGED <<cpu, fn, arg, r, tmp, guard>>
       ELSE /\ cpu' = [cpu EXCEPT ![h] = pop_off(cpu[h])]
            /\ Return(h)
            /\ UNCHANGED panicked
    /\ UNCHANGED <<cpu_id, data, flow, attempts, intr_before, ncalls>>
    /\ UNCHANGED procVars

\* ------------------------------------------------------ lock() and guard

\* lock(): acquire_lock(), then a SpinLockGuard over self.data
lock_guard(h, l) ==
    /\ acquire_lock(h, l)
    /\ guard' = [guard EXCEPT ![h] = TRUE]

\* through DerefMut: read the protected counter
guard_read(h) ==
    /\ fn[h] = "deref_mut" /\ pc[h] = "read"
    /\ tmp' = [tmp EXCEPT ![h] = data[arg[h]]]
    /\ pc' = [pc EXCEPT ![h] = "write"]
    /\ UNCHANGED <<lock, cpu_id, data, cpu, fn, arg, r, guard, held, flow,
                   panicked, attempts, intr_before, ncalls>>
    /\ UNCHANGED procVars

\* through DerefMut: write it back incremented; the guard then goes out of
\* scope and Drop calls release_lock()
guard_write_drop(h) ==
    /\ fn[h] = "deref_mut" /\ pc[h] = "write"
    /\ data' = [data EXCEPT ![arg[h]] = tmp[h] + 1]
    /\ attempts' = [attempts EXCEPT ![h] = @ + 1]
    /\ release_lock(h, arg[h])
    /\ UNCHANGED <<lock, cpu_id, r, tmp, guard, held, flow, panicked,
                   intr_before, ncalls>>
    /\ UNCHANGED procVars

\* --------------------------------------------------------- top-level calls

CanCall(h) == pc[h] = "idle" /\ ncalls < MaxCalls

CallAcquire(h, l) ==
    /\ CanCall(h)
    /\ acquire_lock(h, l)
    /\ ncalls' = ncalls + 1
    /\ UNCHANGED <<lock, cpu_id, data, r, tmp, guard, held, flow, panicked,
                   attempts, intr_before>>
    /\ UNCHANGED procVars

CallLock(h, l) ==
    /\ CanCall(h)
    /\ lock_guard(h, l)
    /\ ncalls' = ncalls + 1
    /\ UNCHANGED <<lock, cpu_id, data, r, tmp, held, flow, panicked,
                   attempts, intr_before>>
    /\ UNCHANGED procVars

CallRelease(h, l) ==
    /\ CanCall(h)
    /\ release_lock(h, l)
    /\ ncalls' = ncalls + 1
    /\ UNCHANGED <<lock, cpu_id, data, r, tmp, guard, held, flow, panicked,
                   attempts, intr_before>>
    /\ UNCHANGED procVars

CallHolding(h, l) ==
    /\ CanCall(h)
    /\ holding_enter(h, l, "holding", cpu[h])
    /\ ncalls' = ncalls + 1
    /\ UNCHANGED <<lock, cpu_id, data, r, tmp, guard, held, flow, panicked,
                   attempts, intr_before>>
    /\ UNCHANGED procVars

\* kernel context switch on hart h between two calls: another logical flow
\* continues on the same hart; no SpinLock and no hart-local interrupt state
\* is touched
swtch(h, f) ==
    /\ CanCall(h)
    /\ f # flow[h]
    /\ flow' = [flow EXCEPT ![h] = f]
    /\ ncalls' = ncalls + 1
    /\ UNCHANGED <<lock, cpu_id, data, cpu, fn, pc, arg, r, tmp, guard, held,
                   panicked, attempts, intr_before>>
    /\ UNCHANGED procVars

LockNext ==
    \E h \in Harts :
        \/ \E l \in Locks : CallAcquire(h, l)
        \/ \E l \in Locks : CallLock(h, l)
        \/ \E l \in Locks : CallRelease(h, l)
        \/ \E l \in Locks : CallHolding(h, l)
        \/ holding_load(h)
        \/ holding_id(h)
        \/ holding_ret(h)
        \/ acquire_cas(h)
        \/ acquire_set(h)
        \/ release_clear(h)
        \/ release_store(h)
        \/ guard_read(h)
        \/ guard_write_drop(h)
        \/ \E f \in Flows : swtch(h, f)

\* ------------------------------------------------------------------- Proc

\* consts::PGSIZE, the Sv39 page size
PGSIZE == 4096

\* Addresses are scaled down to fit TLC's 32-bit integers: MAXVA stands
\* for 2^38 and KERNBASE for 0x80000000.  Only page alignment, distinctness and
\* offsets of a few pages are used.
MAXVA == 2 ^ 30

KERNBASE == 2 ^ 29

\* consts::TRAMPOLINE and consts::TRAPFRAME: the two highest user pages

TRAMPOLINE == MAXVA - PGSIZE

TRAPFRAME == TRAMPOLINE - PGSIZE

\* `trampoline as usize`: the physical page of the kernel's trampoline code
TrampolinePA == KERNBASE + PGSIZE

\* `fork_ret as *const () as usize` and `user_trap as usize`: addresses of two
\* kernel functions, passed on as data
FORK_RET == KERNBASE + 16

USER_TRAP == KERNBASE + 32

\* ptr::null_mut()
NullPtr == 0

\* pages of the kernel's trap-frame pool that set_tf may be given
TrapFrames == {KERNBASE + 2 * PGSIZE, KERNBASE + 3 * PGSIZE, KERNBASE + 4 * PGSIZE}

\* kernel stack bases that set_kstack may be given
KStacks == {0, KERNBASE + 8 * PGSIZE, KERNBASE + 10 * PGSIZE}

\* pages the allocator may hand out for the root of a new page table
PageTableRoots == {KERNBASE + 12 * PGSIZE, KERNBASE + 13 * PGSIZE}

\* the page the allocator hands out for the init image, and the root of the
\* kernel's own page table
InitPagePA == KERNBASE + 14 * PGSIZE

KernelRoot == KERNBASE + 15 * PGSIZE

\* statuses passed to exit
Statuses == {-1, 0, 1}

\* Option<Box<PageTable>>: None, or a table with the address of its root, the
\* set of mapped pages and the bytes at the start of the page mapped at 0
NoPageTable == [some |-> FALSE, root |-> NullPtr, maps |-> {}, image |-> <<>>]

\* PageTable::uvm_create(): a fresh table that maps nothing
uvm_create(root) == [some |-> TRUE, root |-> root, maps |-> {}, image |-> <<>>]

\* PageTable::map_pages(va, size, pa, perm) when it returns Ok: one page is
\* added (every call here maps PGSIZE bytes)
map_pages(pt, q) ==
    [pt EXCEPT !.maps = @ \cup {[va |-> q.va, pa |-> q.pa, perm |-> q.perm]}]

\* PageTable::uvm_init(src): a fresh page is mapped at user address 0 and the
\* image is copied to its start
uvm_init(pt, src) ==
    [map_pages(pt, [va |-> 0, pa |-> InitPagePA, perm |-> {"R", "W", "X", "U"}])
        EXCEPT !.image = src]

\* the satp encoding: the mode field (Sv39, scaled like the addresses) and the
\* page number of the root
SATP_SV39 == 2 ^ 30

MAKE_SATP(root) == SATP_SV39 + (root \div PGSIZE)

\* PageTable::as_satp()
as_satp(pt) == MAKE_SATP(pt.root)

\* satp::read(): every hart runs on the kernel's page table, and nothing here
\* writes satp
satp_read(h) == MAKE_SATP(KernelRoot)

\* Context: ra, sp and the callee-saved registers s0 .. s11
ZeroRegs == [i \in 0 .. 11 |-> 0]

\* Context::new() and Context::clear()
Context_new == [ra |-> 0, sp |-> 0, s |-> ZeroRegs]

Context_clear(c) == [ra |-> 0, sp |-> 0, s |-> ZeroRegs]

\* Context::set_ra and Context::set_sp
Context_set_ra(c, ra) == [c EXCEPT !.ra = ra]

Context_set_sp(c, sp) == [c EXCEPT !.sp = sp]

\* register contents a context switch may save into the Context
SavedContexts ==
    {[ra |-> KERNBASE + 64, sp |-> KERNBASE + 9 * PGSIZE - 32,
      s |-> [i \in 0 .. 11 |-> i + 1]]}

\* a page of the trap-frame pool before anything is stored in it: whatever the
\* previous user of the page left
JunkFrame(t) ==
    LET j == ((t \div PGSIZE) % 4) * 4
    IN  [kernel_satp |-> j, kernel_sp |-> j, kernel_trap |-> j, epc |-> j,
         kernel_hartid |-> j, sp |-> j]

\* TrapFrame::set_sp
TrapFrame_set_sp(t, sp) == [t EXCEPT !.sp = sp]

\* b"initcode\0"
init_name == <<105, 110, 105, 116, 99, 111, 100, 101, 0>>

\* from xv6-riscv: first user program that calls exec("/init")
INITCODE ==
    << 23,   5,   0,   0,  19,   5,   5,   2,
      151,   5,   0,   0, 147, 133,   5,   2,
      157,  72, 115,   0,   0,   0, 137,  72,
      115,   0,   0,   0, 239, 240, 191, 255,
       47, 105, 110, 105, 116,   0,   0,   1,
       32,   0,   0,   0,   0,   0,   0,   0,
        0,   0,   0 >>

\* ptr::copy_nonoverlapping(src, dst, count) on byte arrays
copy_nonoverlapping(src, dst, count) ==
    [i \in DOMAIN dst |-> IF i <= count THEN src[i] ELSE dst[i]]

\* Proc::new()
ProcNew ==
    [state |-> "UNUSED", killed |-> FALSE, pid |-> 0, kstack |-> 0, sz |-> 0,
     pagetable |-> NoPageTable, tf |-> NullPtr, context |-> Context_new,
     name |-> [i \in 1 .. 16 |-> 0]]

\* the inputs of a call besides self: the hart it runs on, the status given to
\* exit, and PROC_MANAGER's answer to is_init_proc(self)
NoCall == [hart |-> 0, status |-> 0, init |-> FALSE]

\* a Proc method can be called: nothing has panicked, and the bound on calls
CanCallProc == ppanic = "" /\ npcalls < MaxProcCalls

InitProc ==
    /\ proc = ProcNew
    /\ plast = "new"
    /\ ppanic = ""
    /\ frames = [t \in TrapFrames |-> JunkFrame(t)]
    /\ sepc = [h \in Harts |-> 0]
    /\ pret = 0
    /\ pcall = NoCall
    /\ npcalls = 0

\* Proc::set_kstack
set_kstack(kstack) ==
    /\ CanCallProc
    /\ npcalls' = npcalls + 1
    /\ proc' = [proc EXCEPT !.kstack = kstack]
    /\ plast' = "set_kstack"
    /\ pcall' = NoCall
    /\ UNCHANGED <<ppanic, frames, sepc, pret, lockVars>>

\* Proc::set_tf
set_tf(tf) ==
    /\ CanCallProc
    /\ npcalls' = npcalls + 1
    /\ proc' = [proc EXCEPT !.tf = tf]
    /\ plast' = "set_tf"
    /\ pcall' = NoCall
    /\ UNCHANGED <<ppanic, frames, sepc, pret, lockVars>>

\* A mutant of proc_pagetable: the trampoline is mapped at TRAPFRAME too.
pagetable_requests_samepage(p) ==
    << [va |-> TRAPFRAME, size |-> PGSIZE, pa |-> TrampolinePA, perm |-> {"R", "X"},
        msg |-> "user proc table mapping trampoline"],
       [va |-> TRAPFRAME, size |-> PGSIZE, pa |-> p.tf, perm |-> {"R", "W"},
        msg |-> "user proc table mapping trapframe"] >>

\* A mutant of proc_pagetable: the trap-frame page is mapped before the
\* pointer is read.
pagetable_requests_nulltf(p) ==
    << [va |-> TRAMPOLINE, size |-> PGSIZE, pa |-> TrampolinePA, perm |-> {"R", "X"},
        msg |-> "user proc table mapping trampoline"],
       [va |-> TRAPFRAME, size |-> PGSIZE, pa |-> NullPtr, perm |-> {"R", "W"},
        msg |-> "user proc table mapping trapframe"] >>

\* A mutant of proc_pagetable: the trap frame is mapped executable as well.
pagetable_requests_rwx(p) ==
    << [va |-> TRAMPOLINE, size |-> PGSIZE, pa |-> TrampolinePA, perm |-> {"R", "X"},
        msg |-> "user proc table mapping trampoline"],
       [va |-> TRAPFRAME, size |-> PGSIZE, pa |-> p.tf, perm |-> {"R", "W", "X"},
        msg |-> "user proc table mapping trapframe"] >>

\* the two map_pages calls of proc_pagetable, in order, each with the message
\* of its expect()
pagetable_requests(p) ==
    << [va |-> TRAMPOLINE, size |-> PGSIZE, pa |-> TrampolinePA, perm |-> {"R", "X"},
        msg |-> "user proc table mapping trampoline"],
       [va |-> TRAPFRAME, size |-> PGSIZE, pa |-> p.tf, perm |-> {"R", "W"},
        msg |-> "user proc table mapping trapframe"] >>

\* PhysAddr::try_from(addr): the outcomes it can have.  A page of the pool is
\* accepted; whether the null address is accepted is not decided here.
PhysAddr_try_from(addr) == IF addr = NullPtr THEN {"Ok", "Err"} ELSE {"Ok"}

\* Proc::proc_pagetable: map_pages may return Err at either call (failat 1 or
\* 2) and try_from may return Err (failat 3); expect() or unwrap() then panics
\* before self.pagetable is assigned
proc_pagetable(root, failat) ==
    /\ CanCallProc
    /\ npcalls' = npcalls + 1
    /\ plast' = "proc_pagetable"
    /\ pcall' = NoCall
    /\ LET q == pagetable_requests(proc) IN
       IF failat \in DOMAIN q
       THEN /\ ppanic' = q[failat].msg
            /\ UNCHANGED proc
       ELSE IF failat = 3
       THEN /\ "Err" \in PhysAddr_try_from(proc.tf)
            /\ ppanic' = "called Result::unwrap() on an Err value"
            /\ UNCHANGED proc
       ELSE /\ "Ok" \in PhysAddr_try_from(proc.tf)
            /\ proc' = [proc EXCEPT
                        !.pagetable = map_pages(map_pages(uvm_create(root), q[1]), q[2])]
            /\ UNCHANGED ppanic
    /\ UNCHANGED <<frames, sepc, pret, lockVars>>

\* A mutant of init_context: the stack pointer is the base of the kernel
\* stack, not its top.
init_context_sp_base(p) ==
    Context_set_sp(Context_set_ra(Context_clear(p.context), FORK_RET), p.kstack)

\* the three statements of init_context
init_context_sp(p) ==
    Context_set_sp(Context_set_ra(Context_clear(p.context), FORK_RET),
                   p.kstack + PGSIZE)

\* Proc::init_context
init_context ==
    /\ CanCallProc
    /\ npcalls' = npcalls + 1
    /\ proc' = [proc EXCEPT !.context = init_context_sp(proc)]
    /\ plast' = "init_context"
    /\ pcall' = NoCall
    /\ UNCHANGED <<ppanic, frames, sepc, pret, lockVars>>

\* Proc::get_context_mut, and the store through the reference it returns: the
\* context switch saves the registers of the flow that leaves the hart
get_context_mut(c) ==
    /\ CanCallProc
    /\ npcalls' = npcalls + 1
    /\ proc' = [proc EXCEPT !.context = c]
    /\ plast' = "get_context_mut"
    /\ pcall' = NoCall
    /\ UNCHANGED <<ppanic, frames, sepc, pret, lockVars>>

\* A mutant of user_init: the user stack pointer is left at 0.
user_init_tf_nosp(t) == TrapFrame_set_sp([t EXCEPT !.epc = 0], 0)

\* user_init's two stores into the trap frame
user_init_tf(t) == TrapFrame_set_sp([t EXCEPT !.epc = 0], PGSIZE)

\* user_init's stores into the Proc itself once the image is mapped
user_init_proc(p) ==
    [p EXCEPT !.name = copy_nonoverlapping(init_name, p.name, Len(init_name)),
              !.state = "RUNNABLE"]

\* Proc::user_init.  It is called once for a Proc (nothing is mapped at 0 yet).
\* unwrap() panics on a Proc without page table.  `&mut *self.tf` on a null
\* trap frame is undefined: the stores fault (fault = TRUE), or they land in
\* memory that is not a trap frame and the function goes on.  h is the hart
\* that runs the call.
user_init(h, fault) ==
    /\ CanCallProc
    /\ npcalls' = npcalls + 1
    /\ \A m \in proc.pagetable.maps : m.va # 0
    /\ plast' = "user_init"
    /\ pcall' = [NoCall EXCEPT !.hart = h]
    /\ IF ~proc.pagetable.some
       THEN /\ ~fault
            /\ ppanic' = "called Option::unwrap() on a None value"
            /\ UNCHANGED <<proc, frames>>
       ELSE LET p == [proc EXCEPT !.pagetable = uvm_init(@, INITCODE),
                                  !.sz = PGSIZE] IN
            IF proc.tf = NullPtr
            THEN IF fault
                 THEN /\ ppanic' = "kernel trap"
                      /\ proc' = p
                      /\ UNCHANGED frames
                 ELSE /\ proc' = user_init_proc(p)
                      /\ UNCHANGED <<ppanic, frames>>
            ELSE /\ ~fault
                 /\ frames' = [frames EXCEPT ![proc.tf] = user_init_tf(@)]
                 /\ proc' = user_init_proc(p)
                 /\ UNCHANGED ppanic
    /\ UNCHANGED <<sepc, pret, lockVars>>

\* the value user_ret_prepare returns
user_ret_token(p, h) == as_satp(p.pagetable)

\* A mutant of user_ret_prepare: hart 0 is recorded, whichever hart runs.
user_ret_tf_hart0(t, p, h) ==
    [t EXCEPT !.kernel_satp = satp_read(h),
              !.kernel_sp = p.kstack + PGSIZE,
              !.kernel_trap = USER_TRAP,
              !.kernel_hartid = 0]

\* user_ret_prepare's four stores into the trap frame, on hart h
user_ret_tf(t, p, h) ==
    [t EXCEPT !.kernel_satp = satp_read(h),
              !.kernel_sp = p.kstack + PGSIZE,
              !.kernel_trap = USER_TRAP,
              !.kernel_hartid = this_cpu(h)]

\* Proc::user_ret_prepare on hart h.  The trap frame is written and sepc set
\* before unwrap() looks at the page table.  On a null trap frame the
\* dereference is undefined: the stores fault, or the function goes on with
\* whatever epc it reads there (the input epc, 0 in the defined cases).
user_ret_prepare(h, fault, epc) ==
    /\ CanCallProc
    /\ npcalls' = npcalls + 1
    /\ plast' = "user_ret_prepare"
    /\ pcall' = [NoCall EXCEPT !.hart = h]
    /\ UNCHANGED <<proc, lockVars>>
    /\ IF proc.tf = NullPtr /\ fault
       THEN /\ epc = 0
            /\ ppanic' = "kernel trap"
            /\ UNCHANGED <<frames, sepc, pret>>
       ELSE /\ ~fault
            /\ IF proc.tf = NullPtr
               THEN /\ sepc' = [sepc EXCEPT ![h] = epc]
                    /\ UNCHANGED frames
               ELSE /\ epc = 0
                    /\ frames' = [frames EXCEPT ![proc.tf] = user_ret_tf(@, proc, h)]
                    /\ sepc' = [sepc EXCEPT ![h] = frames[proc.tf].epc]
            /\ IF proc.pagetable.some
               THEN /\ pret' = user_ret_token(proc, h)
                    /\ UNCHANGED ppanic
               ELSE /\ ppanic' = "called Option::unwrap() on a None value"
                    /\ UNCHANGED pret

\* the text of exit's second panic!
exit_todo(status) ==
    CASE status = -1 -> "exit: TODO, status=-1"
      [] status = 0  -> "exit: TODO, status=0"
      [] status = 1  -> "exit: TODO, status=1"

\* A mutant of exit: the init process is not told apart.
exit_message_nocheck(status, is_init_proc) == exit_todo(status)

\* the panic exit ends in
exit_message(status, is_init_proc) ==
    IF is_init_proc THEN "init_proc exiting" ELSE exit_todo(status)

\* A mutant of exit: the Proc is made a zombie before the panic.
exit_proc_zombie(p, status) == [p EXCEPT !.state = "ZOMBIE", !.killed = TRUE]

\* the Proc after exit: no field is assigned
exit_proc(p, status) == p

\* Proc::exit; is_init_proc is PROC_MANAGER's answer for this Proc
exit(status, is_init_proc) ==
    /\ CanCallProc
    /\ npcalls' = npcalls + 1
    /\ plast' = "exit"
    /\ pcall' = [NoCall EXCEPT !.status = status, !.init = is_init_proc]
    /\ proc' = exit_proc(proc, status)
    /\ ppanic' = exit_message(status, is_init_proc)
    /\ UNCHANGED <<frames, sepc, pret, lockVars>>

\* junk values a dereferenced null trap frame may read as its epc
JunkEpc == {0, 4}

ProcNext ==
    \/ \E kstack \in KStacks : set_kstack(kstack)
    \/ \E tf \in TrapFrames \cup {NullPtr} : set_tf(tf)
    \/ \E root \in PageTableRoots, failat \in 0 .. 3 : proc_pagetable(root, failat)
    \/ init_context
    \/ \E c \in SavedContexts : get_context_mut(c)
    \/ \E h \in Harts, fault \in BOOLEAN : user_init(h, fault)
    \/ \E h \in Harts, fault \in BOOLEAN, epc \in JunkEpc : user_ret_prepare(h, fault, epc)
    \/ \E status \in Statuses, is_init_proc \in BOOLEAN : exit(status, is_init_proc)

\* ---------------------------------------------------------------- manager

\* The Proc as the manager's allocation leaves it: kernel stack and trap frame
\* set, page table built, state still UNUSED.
AllocProc ==
    LET p == [ProcNew EXCEPT !.kstack = KERNBASE + 8 * PGSIZE,
                             !.tf = KERNBASE + 2 * PGSIZE]
        q == pagetable_requests(p)
    IN  [p EXCEPT !.pagetable =
                    map_pages(map_pages(uvm_create(KERNBASE + 12 * PGSIZE), q[1]), q[2])]

MgrInit ==
    /\ InitLock
    /\ proc = AllocProc
    /\ plast = "proc_pagetable"
    /\ ppanic = ""
    /\ frames = [t \in TrapFrames |-> JunkFrame(t)]
    /\ sepc = [h \in Harts |-> 0]
    /\ pret = 0
    /\ pcall = NoCall
    /\ npcalls = 0

\* The manager's bootstrap on hart h: it runs Proc::user_init on the slot
\* between an acquire_lock and a release_lock of the slot's own lock that the
\* hart has returned from.
mgr_user_init(h) ==
    /\ pc[h] = "idle"
    /\ Holds(h, "proc")
    /\ user_init(h, FALSE)

MgrNext ==
    \E h \in Harts :
        \/ CallAcquire(h, "proc")
        \/ CallRelease(h, "proc")
        \/ holding_load(h)
        \/ holding_id(h)
        \/ acquire_cas(h)
        \/ acquire_set(h)
        \/ release_clear(h)
        \/ release_store(h)
        \/ mgr_user_init(h)

\* ------------------------------------------------------------ fair harts

\* Harts that take one lock at a time and release what they took, for ever:
\* a call of acquire_lock by a hart that holds nothing ...
LiveAcquire(h, l) ==
    /\ pc[h] = "idle"
    /\ held[h] = <<>>
    /\ acquire_lock(h, l)
    /\ UNCHANGED <<lock, cpu_id, data, r, tmp, guard, held, flow, panicked,
                   attempts, intr_before, ncalls>>
    /\ UNCHANGED procVars

\* ... and the call of release_lock by the hart that holds l
LiveRelease(h, l) ==
    /\ pc[h] = "idle"
    /\ Holds(h, l)
    /\ release_lock(h, l)
    /\ UNCHANGED <<lock, cpu_id, data, r, tmp, guard, held, flow, panicked,
                   attempts, intr_before, ncalls>>
    /\ UNCHANGED procVars

\* what hart h does once scheduled: the next instruction of the call it is
\* in, or, if it holds a lock, the call of release_lock
HartStep(h) ==
    \/ holding_load(h)
    \/ holding_id(h)
    \/ acquire_cas(h)
    \/ acquire_set(h)
    \/ release_clear(h)
    \/ release_store(h)
    \/ \E l \in Locks : LiveRelease(h, l)

LiveNext ==
    \E h \in Harts :
        \/ \E l \in Locks : LiveAcquire(h, l)
        \/ \E l \in Locks : LiveRelease(h, l)
        \/ holding_load(h)
        \/ holding_id(h)
        \/ acquire_cas(h)
        \/ acquire_set(h)
        \/ release_clear(h)
        \/ release_store(h)

\* ---------------------------------------------------------- specifications

vars == <<lockVars, procVars>>

Init == InitLock /\ InitProc

\* the harts using the spinlocks
Next == LockNext

Spec == Init /\ [][Next]_vars

\* one Proc slot under construction
ProcSpec == Init /\ [][ProcNext]_vars

\* harts that run for ever, each scheduled fairly, each holder releasing: a
\* hart never stops executing, so the step it is at is eventually taken; a
\* swap that fails changes nothing, so a spinning hart gets no promise
LiveSpec == Init /\ [][LiveNext]_vars /\ \A h \in Harts : WF_vars(HartStep(h))

\* the harts running the manager's bootstrap on one allocated Proc slot
MgrSpec == MgrInit /\ [][MgrNext]_vars

\* ------------------------------------------------------------------ claims

\* f[0] + .. + f[n]
RECURSIVE SumTo(_, _)
SumTo(f, n) == IF n < 0 THEN 0 ELSE f[n] + SumTo(f, n - 1)

\* hart h is between the first instruction of acquire_lock and the return of
\* the matching release_lock for some lock
InAcquire(h) == fn[h] = "acquire_lock" /\ pc[h] \in {"ld", "id", "cas", "set"}

\* each lock h holds accounts for exactly one push_off once h is between calls
Balanced(h) == pc[h] = "idle" => cpu[h].noff = Len(held[h])

\* C1: mutual exclusion.  For every lock at most one hart is between its
\* successful compare-and-swap and its store of locked=false, and the counters
\* incremented under the locks add up to the number of increments written
\* back: no update is lost.
C1_MutualExclusion ==
    /\ \A l \in Locks : \A h, o \in Harts : Holds(h, l) /\ Holds(o, l) => h = o
    /\ data["proc"] + data["smoke"] = SumTo(attempts, NHarts - 1)

\* both harts have incremented the counter of the same lock
C1_Witness ==
    /\ \A h \in Harts : attempts[h] = 1
    /\ data["proc"] = NHarts

\* C2: self-deadlock is fatal.  A hart inside acquire_lock on a lock it
\* already holds goes from the flag load to the owner read and from there to
\* panic "acquire"; it never arrives at the compare-and-swap loop.
C2_SelfDeadlockFatal ==
    [][\A h \in Harts :
         (/\ fn[h] = "acquire_lock"
          /\ pc[h] \in {"ld", "id"}
          /\ Holds(h, arg[h])
          /\ pc'[h] # pc[h])
         => \/ pc[h] = "ld" /\ pc'[h] = "id"
            \/ pc[h] = "id" /\ pc'[h] = "panic" /\ panicked'[h] = "acquire"]_vars

\* a hart has panicked in acquire_lock on a lock it holds while the other
\* hart spins on that lock
C2_Witness ==
    \E h, o \in Harts :
        /\ h # o
        /\ panicked[h] = "acquire" /\ Holds(h, arg[h])
        /\ fn[o] = "acquire_lock" /\ pc[o] = "cas" /\ arg[o] = arg[h]

\* C3: release by a non-holder is fatal.  A hart inside release_lock on a lock
\* it does not hold ends in panic "release", and none of its steps changes a
\* locked flag, a recorded owner or the set of held locks.
C3_ReleaseByNonHolderFatal ==
    [][\A h \in Harts :
         (/\ fn[h] = "release_lock"
          /\ pc[h] \in {"ld", "id"}
          /\ ~Holds(h, arg[h])
          /\ pc'[h] # pc[h])
         => /\ \/ pc[h] = "ld" /\ pc'[h] = "id"
               \/ pc'[h] = "panic" /\ panicked'[h] = "release"
            /\ lock' = lock /\ cpu_id' = cpu_id /\ held' = held]_vars

\* a hart has panicked releasing a lock the other hart holds, and that lock
\* is still locked and owned by the other hart
C3_Witness ==
    \E h, o \in Harts :
        /\ h # o
        /\ panicked[h] = "release"
        /\ Holds(o, arg[h]) /\ lock[arg[h]] /\ cpu_id[arg[h]] = o

\* C4: interrupts are off for the whole critical section.  A hart that is
\* inside acquire_lock (holding check, busy-wait, owner write), that holds any
\* lock, or that is inside release_lock up to the store of locked=false, has
\* interrupts disabled and a nesting counter of at least one.
C4_IntrOffWhileHeld ==
    \A h \in Harts :
        (held[h] # <<>> \/ InAcquire(h)) => ~cpu[h].intr /\ cpu[h].noff >= 1

\* a hart holding two locks is about to store locked=false for the one it
\* took first (non-LIFO release)
C4_Witness ==
    \E h \in Harts :
        /\ fn[h] = "release_lock" /\ pc[h] = "sto"
        /\ Len(held[h]) = 2 /\ held[h][1].l = arg[h]

\* C5: interrupt-nesting symmetry.  While a hart's counter is above zero its
\* interrupts are disabled; whenever the counter is back at zero the enable
\* bit equals the one before the first push; a hart between calls that holds
\* no lock has its counter back at zero.
C5_NestingSymmetry ==
    \A h \in Harts :
        /\ cpu[h].noff > 0 => ~cpu[h].intr
        /\ cpu[h].noff = 0 => cpu[h].intr = intr_before[h]
        /\ (pc[h] = "idle" /\ held[h] = <<>>) => cpu[h].noff = 0

\* a hart that started with interrupts on has been through a whole lock() ..
\* drop cycle (two nested pushes, two pops, one push, two pops) and has them
\* on again with the counter at zero
C5_Witness ==
    \E h \in Harts :
        /\ intr_before[h] /\ attempts[h] >= 1
        /\ pc[h] = "idle" /\ held[h] = <<>>
        /\ cpu[h].intr /\ cpu[h].noff = 0 /\ cpu[h].intena

\* C6: scoped release and re-acquisition.  A lock no hart holds is unlocked
\* and has no owner, so the next compare-and-swap on it succeeds; a hart
\* between calls has popped once per released lock; a hart inside lock() ..
\* drop panics only in acquire_lock and only when it already holds the lock.
C6_GuardReleaseReacquire ==
    /\ \A l \in Locks : (\A h \in Harts : ~Holds(h, l)) => ~lock[l] /\ cpu_id[l] = NoOwner
    /\ \A h \in Harts :
        /\ Balanced(h)
        /\ (guard[h] /\ pc[h] = "panic")
           => panicked[h] = "acquire" /\ Holds(h, arg[h])

\* one hart alone has completed two lock() .. drop cycles on the same lock
C6_Witness ==
    \E h \in Harts : \E l \in Locks :
        /\ attempts[h] = 2 /\ data[l] = 2
        /\ \A o \in Harts \ {h} : attempts[o] = 0
        /\ pc[h] = "idle" /\ panicked[h] = ""

C8_HoldingExact ==
    \A h \in Harts :
        (\/ fn[h] = "holding" /\ pc[h] = "ret"
         \/ fn[h] = "acquire_lock" /\ pc[h] = "cas"
         \/ fn[h] = "release_lock" /\ pc[h] = "clr"
         \/ panicked[h] \in {"acquire", "release"})
        => (r[h] <=> Holds(h, arg[h]))

\* holding() has returned false on one hart while the other hart is between
\* its successful compare-and-swap and its owner write on the same lock
C8_Witness ==
    \E h, o \in Harts :
        /\ h # o
        /\ fn[h] = "holding" /\ pc[h] = "ret" /\ ~r[h]
        /\ fn[o] = "acquire_lock" /\ pc[o] = "set" /\ arg[o] = arg[h]

\* C9: a lock held across a context switch.  A lock taken by a flow that is no
\* longer the one running on hart h is still locked, owned by h, with h's
\* interrupts off, until h's release_lock has cleared the owner; release_lock
\* on a lock the hart holds never panics, whichever flow calls it; and the
\* counter is balanced between calls.
C9_HeldAcrossSwitch ==
    \A h \in Harts :
        /\ \A i \in DOMAIN held[h] :
             (/\ held[h][i].f # flow[h]
              /\ ~(fn[h] = "release_lock" /\ pc[h] = "sto" /\ arg[h] = held[h][i].l))
             => /\ lock[held[h][i].l]
                /\ cpu_id[held[h][i].l] = h
                /\ ~cpu[h].intr
        /\ (fn[h] = "release_lock" /\ pc[h] = "panic") => ~Holds(h, arg[h])
        /\ Balanced(h)

\* a flow other than the one that took the lock has passed release_lock's
\* holder check and cleared the owner
C9_Witness ==
    \E h \in Harts : \E i \in DOMAIN held[h] :
        /\ fn[h] = "release_lock" /\ pc[h] = "sto"
        /\ held[h][i].l = arg[h] /\ held[h][i].f # flow[h]

\* the requests of a completed proc_pagetable
Built(p) ==
    {[va |-> q.va, pa |-> q.pa, perm |-> q.perm] :
        q \in {[va |-> TRAMPOLINE, pa |-> TrampolinePA, perm |-> {"R", "X"}],
               [va |-> TRAPFRAME, pa |-> p.tf, perm |-> {"R", "W"}]}}

\* C10: page-table construction.  Right after a proc_pagetable that returned,
\* on a Proc whose trap frame is set, the page table holds exactly the
\* trampoline page (read+execute) and the Proc's trap-frame page (read+write);
\* a proc_pagetable that panics leaves the Proc, and so its page table, as it
\* was: None if it was None.
C10_PageTableBuilt ==
    /\ [](/\ (plast = "proc_pagetable" /\ ppanic = "" /\ proc.tf # NullPtr)
             => /\ proc.pagetable.some
                /\ proc.pagetable.maps = Built(proc)
                /\ Cardinality(proc.pagetable.maps) = 2
          /\ (ppanic # "" /\ ~proc.pagetable.some) => proc.pagetable = NoPageTable)
    /\ [][(ppanic = "" /\ ppanic' # "" /\ plast' = "proc_pagetable")
            => /\ proc.tf # NullPtr
                    => ppanic' \in {"user proc table mapping trampoline",
                                    "user proc table mapping trapframe"}
               /\ proc' = proc]_vars

\* proc_pagetable has returned on a Proc with a trap frame from the pool
C10_Witness ==
    /\ plast = "proc_pagetable" /\ ppanic = ""
    /\ proc.tf \in TrapFrames
    /\ proc.pagetable.some

\* the mappings of page table pt at user address va
MappedAt(pt, va) == {m \in pt.maps : m.va = va}

\* C11 as stated: two-mapping invariant.  After any sequence of Proc methods a
\* page table that is Some holds exactly two mappings, the trampoline page and
\* a trap-frame page.
C11_ExactlyTwoMappings ==
    proc.pagetable.some
        => /\ Cardinality(proc.pagetable.maps) = 2
           /\ MappedAt(proc.pagetable, TRAMPOLINE) # {}
           /\ MappedAt(proc.pagetable, TRAPFRAME) # {}

\* C11 amended: a page table that is Some always holds the trampoline page
\* (read+execute) and exactly one page at TRAPFRAME (read+write); these are
\* its only mappings until user_init, which adds a third one: the page of the
\* init image at user address 0.  A table that user_init has been run on holds
\* three mappings.
C11_TwoMappingsAndImage ==
    proc.pagetable.some
        => /\ MappedAt(proc.pagetable, TRAMPOLINE)
                = {[va |-> TRAMPOLINE, pa |-> TrampolinePA, perm |-> {"R", "X"}]}
           /\ \E pa \in TrapFrames \cup {NullPtr} :
                 MappedAt(proc.pagetable, TRAPFRAME)
                    = {[va |-> TRAPFRAME, pa |-> pa, perm |-> {"R", "W"}]}
           /\ \A m \in proc.pagetable.maps : m.va \in {TRAMPOLINE, TRAPFRAME, 0}
           /\ Cardinality(MappedAt(proc.pagetable, 0))
                = (IF proc.pagetable.image = INITCODE THEN 1 ELSE 0)
           /\ Cardinality(proc.pagetable.maps)
                = (IF proc.pagetable.image = INITCODE THEN 3 ELSE 2)
           /\ (plast = "user_init" /\ ppanic = "") => proc.pagetable.image = INITCODE

\* user_init has returned on a Proc with a trap frame: three pages are mapped
C11_Witness ==
    /\ plast = "user_init" /\ ppanic = ""
    /\ proc.tf \in TrapFrames
    /\ Cardinality(proc.pagetable.maps) = 3

\* the page table of p maps TRAPFRAME to the page p.tf points to
TrapFrameMapped(p) ==
    /\ p.pagetable.some
    /\ {m.pa : m \in MappedAt(p.pagetable, TRAPFRAME)} = {p.tf}

\* C12 as stated: trap-frame binding invariant.  After set_tf and
\* proc_pagetable calls in any order the trap frame is non-null whenever the
\* page table is Some, and the page mapped at TRAPFRAME is the page the trap
\* frame pointer refers to.
C12_TrapFrameAlwaysBound ==
    proc.pagetable.some => (proc.tf # NullPtr /\ TrapFrameMapped(proc))

\* C12 amended: proc_pagetable maps TRAPFRAME to the page the trap frame
\* pointer refers to at the time of the call, so after set_tf with a page of
\* the pool followed by proc_pagetable the pointer is non-null and bound to
\* the mapped page; set_tf never touches the page table; and every later step
\* that leaves the pointer alone keeps the binding.
C12_TrapFrameBoundAtBuild ==
    /\ []((plast = "proc_pagetable" /\ ppanic = "")
             => /\ TrapFrameMapped(proc)
                /\ proc.tf # NullPtr => proc.tf \in TrapFrames)
    /\ [][plast' = "set_tf" => proc'.pagetable = proc.pagetable]_vars
    /\ [][(TrapFrameMapped(proc) /\ proc'.tf = proc.tf) => TrapFrameMapped(proc')]_vars

\* the binding made by set_tf then proc_pagetable is still there after
\* user_init and user_ret_prepare
C12_Witness ==
    /\ plast = "user_ret_prepare" /\ ppanic = ""
    /\ proc.tf \in TrapFrames
    /\ proc.state = "RUNNABLE"
    /\ TrapFrameMapped(proc)

\* C13: postcondition of user_init.  When user_init returns on a Proc with a
\* page table and a trap frame from the pool, the state is RUNNABLE, sz is one
\* page, the trap frame's epc is 0 and its user stack pointer is PGSIZE, the
\* name is "initcode" with its terminator followed by zero bytes, and the 51
\* bytes of the init image are at user address 0, in a page mapped there.
C13_UserInitPost ==
    (plast = "user_init" /\ ppanic = "" /\ proc.tf \in TrapFrames)
        => /\ proc.state = "RUNNABLE"
           /\ proc.sz = PGSIZE
           /\ frames[proc.tf].epc = 0
           /\ frames[proc.tf].sp = PGSIZE
           /\ proc.name = <<105, 110, 105, 116, 99, 111, 100, 101, 0,
                            0, 0, 0, 0, 0, 0, 0>>
           /\ Len(proc.pagetable.image) = 51
           /\ proc.pagetable.image = INITCODE
           /\ SubSeq(proc.pagetable.image, 33, 38) = <<47, 105, 110, 105, 116, 0>>
           /\ \E m \in proc.pagetable.maps : m.va = 0 /\ m.pa = InitPagePA

\* user_init has returned on a Proc that had its kernel stack and trap frame
\* set and that was never run before
C13_Witness ==
    /\ plast = "user_init" /\ ppanic = ""
    /\ proc.tf \in TrapFrames
    /\ proc.kstack # 0
    /\ proc.state = "RUNNABLE"
    /\ frames[proc.tf].sp = PGSIZE
    /\ pret = 0

\* C14: return preparation.  When user_ret_prepare returns on hart h for a
\* Proc with a page table and a trap frame from the pool, the value returned is
\* the satp encoding of the root of the Proc's own page table, the trap frame
\* holds the hart's satp, kstack + PGSIZE, the address of user_trap and h, and
\* sepc of h is the trap frame's epc, which the call does not change (0 right
\* after user_init); no field of the Proc changes.
C14_UserRetPrepared ==
    /\ []((plast = "user_ret_prepare" /\ ppanic = "" /\ proc.tf \in TrapFrames)
             => /\ pret = SATP_SV39 + (proc.pagetable.root \div PGSIZE)
                /\ pret # satp_read(pcall.hart)
                /\ frames[proc.tf].kernel_satp = satp_read(pcall.hart)
                /\ frames[proc.tf].kernel_sp = proc.kstack + PGSIZE
                /\ frames[proc.tf].kernel_trap = USER_TRAP
                /\ frames[proc.tf].kernel_hartid = pcall.hart
                /\ sepc[pcall.hart] = frames[proc.tf].epc)
    /\ [][(plast' = "user_ret_prepare" /\ proc.tf \in TrapFrames)
            => /\ proc' = proc
               /\ frames'[proc.tf].epc = frames[proc.tf].epc
               /\ frames'[proc.tf].sp = frames[proc.tf].sp
               /\ \A t \in TrapFrames \ {proc.tf} : frames'[t] = frames[t]
               /\ (plast = "user_init" /\ ppanic = "") => sepc'[pcall'.hart] = 0]_vars

\* user_ret_prepare has returned on hart 1 for the Proc that user_init made
\* runnable, with a kernel stack set
C14_Witness ==
    /\ plast = "user_ret_prepare" /\ ppanic = ""
    /\ pcall.hart = 1
    /\ proc.tf \in TrapFrames
    /\ proc.kstack # 0
    /\ proc.state = "RUNNABLE"
    /\ frames[proc.tf].kernel_hartid = 1
    /\ sepc[1] = 0

\* C15: the init process cannot exit.  Whatever the status, exit on the Proc
\* that PROC_MANAGER identifies as the init process panics with "init_proc
\* exiting"; it does not return, and no other call ends in that panic.
C15_InitProcCannotExit ==
    /\ (plast = "exit" /\ pcall.init) => ppanic = "init_proc exiting"
    /\ ppanic = "init_proc exiting" => (plast = "exit" /\ pcall.init)
    /\ plast = "exit" => ppanic # ""

\* exit(1) was called on the init process after user_init made it runnable
C15_Witness ==
    /\ plast = "exit" /\ pcall.init /\ pcall.status = 1
    /\ proc.state = "RUNNABLE"
    /\ ppanic = "init_proc exiting"

\* C17: exit terminates nothing.  On a Proc that is not the init process
\* exit(status) panics with the TODO message for that status and leaves every
\* field of the Proc (state, killed, pagetable, tf among them) as it was; no
\* sequence of Proc methods makes the state ZOMBIE.
C17_ExitChangesNothing ==
    /\ [](/\ proc.state \in {"UNUSED", "RUNNABLE"}
          /\ ~proc.killed
          /\ (plast = "exit" /\ ~pcall.init)
                => ppanic \in {"exit: TODO, status=-1", "exit: TODO, status=0",
                               "exit: TODO, status=1"})
    /\ [][plast' = "exit"
            => /\ proc'.state = proc.state /\ proc'.killed = proc.killed
               /\ proc'.pagetable = proc.pagetable /\ proc'.tf = proc.tf
               /\ proc' = proc /\ frames' = frames
               /\ ppanic' # ""]_vars
    /\ [][ppanic # "" => UNCHANGED procVars]_vars

\* exit(-1) was called on a runnable Proc that is not the init process
C17_Witness ==
    /\ plast = "exit" /\ ~pcall.init /\ pcall.status = -1
    /\ proc.state = "RUNNABLE" /\ proc.pagetable.some
    /\ ppanic = "exit: TODO, status=-1"

\* C19: init_context.  Whatever the Context held, after init_context every
\* saved register is zero except ra, which is the address of fork_ret, and sp,
\* which is kstack + PGSIZE; a second init_context changes nothing; no other
\* field of the Proc, no trap frame and no register of a hart changes; and
\* while kstack stays as it is, the kernel_sp that user_ret_prepare stores in
\* the trap frame equals the sp of the Context.
C19_InitContext ==
    /\ [](/\ plast = "init_context"
                => /\ proc.context.ra = FORK_RET
                   /\ proc.context.sp = proc.kstack + PGSIZE
                   /\ \A i \in 0 .. 11 : proc.context.s[i] = 0
          /\ (/\ plast = "user_ret_prepare" /\ proc.tf \in TrapFrames
              /\ proc.context.ra = FORK_RET
              /\ proc.context.sp = proc.kstack + PGSIZE)
                => frames[proc.tf].kernel_sp = proc.context.sp)
    /\ [][plast' = "init_context"
            => /\ [proc' EXCEPT !.context = proc.context] = proc
               /\ UNCHANGED <<frames, sepc, pret, ppanic>>
               /\ plast = "init_context" => proc' = proc]_vars
    /\ [][(plast = "init_context" /\ plast' = "user_ret_prepare"
                /\ proc.tf \in TrapFrames)
            => frames'[proc.tf].kernel_sp = proc.context.sp]_vars

\* a context switch saved registers into the Context, init_context reset it,
\* and user_ret_prepare then stored the same stack top in the trap frame
C19_Witness ==
    /\ plast = "user_ret_prepare"
    /\ proc.tf \in TrapFrames
    /\ proc.kstack # 0
    /\ proc.context = [ra |-> FORK_RET, sp |-> proc.kstack + PGSIZE, s |-> ZeroRegs]
    /\ frames[proc.tf].kernel_sp = proc.context.sp
    /\ npcalls >= 5

C18_OwnerValid ==
    /\ [](\A l \in Locks :
            /\ ~lock[l] => cpu_id[l] = NoOwner
            /\ cpu_id[l] # NoOwner
                 => /\ cpu_id[l] \in Harts
                    /\ lock[l]
                    /\ Holds(cpu_id[l], l))
    /\ [][\A l \in Locks :
            cpu_id'[l] # cpu_id[l]
              => IF cpu_id'[l] = NoOwner
                 THEN /\ lock[l] /\ lock'[l]
                      /\ Holds(cpu_id[l], l)
                      /\ pc[cpu_id[l]] = "clr" /\ arg[cpu_id[l]] = l
                 ELSE /\ cpu_id[l] = NoOwner
                      /\ lock[l] /\ lock'[l]
                      /\ Holds(cpu_id'[l], l)
                      /\ pc[cpu_id'[l]] = "set" /\ arg[cpu_id'[l]] = l]_vars

\* hart 1 owns a lock that hart 0 owned and released before, and hart 0 is
\* spinning on it
C18_Witness ==
    \E l \in Locks :
        /\ cpu_id[l] = 1 /\ lock[l] /\ Holds(1, l)
        /\ pc[0] = "cas" /\ arg[0] = l
        /\ ncalls >= 3

\* hart h is in the busy-wait loop of acquire_lock on l
Spinning(h, l) == fn[h] = "acquire_lock" /\ pc[h] = "cas" /\ arg[h] = l

\* hart h has just won the swap on l
Acquired(h, l) == fn[h] = "acquire_lock" /\ pc[h] = "set" /\ arg[h] = l

\* C20: no deadlock.  With harts scheduled fairly and every holder calling
\* release_lock, whenever some hart is in the busy-wait loop on a lock some
\* hart eventually wins the swap on that lock, and a hart that is not in the
\* loop always gets to the end of what it is doing, whoever spins; no hart
\* panics.
C20_NoDeadlock ==
    /\ \A l \in Locks :
          (\E h \in Harts : Spinning(h, l)) ~> (\E h \in Harts : Acquired(h, l))
    /\ \A h \in Harts :
          (pc[h] \notin {"idle", "cas"}) ~> (pc[h] \in {"idle", "cas"})
    /\ \A h \in Harts : (pc[h] = "idle" /\ held[h] # <<>>) ~> (held[h] = <<>>)
    /\ [](\A h \in Harts : panicked[h] = "")

\* hart 0 is in the busy-wait loop on the lock hart 1 holds
C20_Witness ==
    \E l \in Locks :
        /\ Spinning(0, l)
        /\ Holds(1, l) /\ cpu_id[l] = 1 /\ pc[1] = "idle"

=============================================================================
